---- MODULE Spec2Model ----
(***************************************************************************)
(* Speechify text-to-speech adapter (TTSEngine) of Open-LLM-VTuber.        *)
(*                                                                         *)
(* Python strings are sequences of one-character strings, so that lower(), *)
(* strip(), file-name formatting and base64 decoding are computed and not  *)
(* assumed.  A Python value is a record [t |-> type name, v |-> characters]*)
(* so that isinstance() and "is None" are decided on the value itself.     *)
(***************************************************************************)
EXTENDS Integers, Sequences, FiniteSets, TLC

VARIABLES
    phase,      \* "new" | "ready" (constructor returned) | "raised" (constructor raised)
    args,       \* the arguments the constructor was called with
    tts,        \* the attributes of the TTSEngine object
    initLog,    \* what the constructor logged, in order
    cacheDir,   \* whether the directory "cache" exists
    fs,         \* the files of the cache directory: path -> bytes
    last,       \* the most recent finished call and what it did
    task,       \* the async_generate_audio call in flight, if any
    inv         \* the generate_audio calls that run side by side, step by step

vars == <<phase, args, tts, initLog, cacheDir, fs, last, task, inv>>

----------------------------------------------------------------------------
(* Python values *)

PyStr(s) == [t |-> "str", v |-> s]
PyNone == [t |-> "NoneType", v |-> <<>>]
PyInt123 == [t |-> "int", v |-> <<"1", "2", "3">>]
PyUnset == [t |-> "unset", v |-> <<>>]

IsStr(x) == x.t = "str"
IsNone(x) == x.t = "NoneType"

\* The identifiers the adapter compares against, spelled out.
S_mp3 == <<"m", "p", "3">>
S_aac == <<"a", "a", "c">>
S_ogg == <<"o", "g", "g">>
S_wav == <<"w", "a", "v">>
S_simba_english == <<"s", "i", "m", "b", "a", "-", "e", "n", "g", "l", "i", "s", "h">>
S_simba_multilingual ==
    <<"s", "i", "m", "b", "a", "-", "m", "u", "l", "t", "i", "l", "i", "n", "g", "u", "a", "l">>
S_cache == <<"c", "a", "c", "h", "e">>
S_temp == <<"t", "e", "m", "p">>
S_temp_speechify ==
    <<"t", "e", "m", "p", "_", "s", "p", "e", "e", "c", "h", "i", "f", "y">>

SupportedFormats == {S_aac, S_mp3, S_ogg, S_wav}
SupportedModels == {S_simba_english, S_simba_multilingual}

UpperLetters ==
    <<"A", "B", "C", "D", "E", "F", "G", "H", "I", "J", "K", "L", "M",
      "N", "O", "P", "Q", "R", "S", "T", "U", "V", "W", "X", "Y", "Z">>
LowerLetters ==
    <<"a", "b", "c", "d", "e", "f", "g", "h", "i", "j", "k", "l", "m",
      "n", "o", "p", "q", "r", "s", "t", "u", "v", "w", "x", "y", "z">>

\* str.lower(): every upper-case letter is replaced, every other character kept.
LowerChar(c) ==
    IF \E i \in DOMAIN UpperLetters : UpperLetters[i] = c
    THEN LowerLetters[CHOOSE i \in DOMAIN UpperLetters : UpperLetters[i] = c]
    ELSE c

Lower(s) == [i \in DOMAIN s |-> LowerChar(s[i])]

Whitespace == {" ", "\t", "\n"}

\* str.strip(): leading and trailing whitespace removed, the inside kept.
C5_Mutant_NoStrip(s) == s

RECURSIVE LStrip(_)
LStrip(s) ==
    IF s # <<>> /\ Head(s) \in Whitespace THEN LStrip(Tail(s)) ELSE s

RECURSIVE RStrip(_)
RStrip(s) ==
    IF s # <<>> /\ s[Len(s)] \in Whitespace
    THEN RStrip(SubSeq(s, 1, Len(s) - 1))
    ELSE s

C20_Mutant_StripLeft(s) == LStrip(s)

Strip(s) == RStrip(LStrip(s))

----------------------------------------------------------------------------
(* The constructor *)

LogEntry(level, msg) == [level |-> level, msg |-> msg]

\* Lines 61-70: the format is lower-cased, then replaced by mp3 unless supported.
C1_Mutant_AudioFormatNoDefault(audio_format) == Lower(audio_format.v)

ValidatedAudioFormat(audio_format) ==
    IF Lower(audio_format.v) \notin SupportedFormats
    THEN S_mp3
    ELSE Lower(audio_format.v)

AudioFormatLog(audio_format) ==
    IF Lower(audio_format.v) \notin SupportedFormats
    THEN <<LogEntry("warning", "Unsupported audio format")>>
    ELSE <<>>

\* Lines 72-77: the model is compared as given.
C2_Mutant_ModelNoDefault(model) == model

ValidatedModel(model) ==
    IF ~IsStr(model) \/ model.v \notin SupportedModels
    THEN PyStr(S_simba_english)
    ELSE model

C21_Mutant_ModelLogIgnoresCase(model) ==
    IF ~IsStr(model) \/ Lower(model.v) \notin SupportedModels
    THEN <<LogEntry("warning", "Unsupported model")>>
    ELSE <<>>

ModelLog(model) ==
    IF ~IsStr(model) \/ model.v \notin SupportedModels
    THEN <<LogEntry("warning", "Unsupported model")>>
    ELSE <<>>

\* Line 80: the file extension is the validated format.
C8_Mutant_ExtensionMp3(audio_format) == PyStr(S_mp3)

FileExtension(audio_format) == audio_format

\* Lines 87-93: the vendor client, or None when Speechify(...) raises.
ClientOrNone(clientRaises) == IF clientRaises THEN "None" ELSE "Speechify"

ClientLog(clientRaises) ==
    IF clientRaises
    THEN <<LogEntry("critical", "Failed to initialize Speechify client")>>
    ELSE <<LogEntry("info", "Speechify TTS Engine initialized successfully")>>

UnsetEngine ==
    [api_key |-> PyUnset, voice_id |-> PyUnset, model |-> PyUnset,
     language |-> PyUnset, audio_format |-> PyUnset,
     loudness_normalization |-> FALSE, text_normalization |-> FALSE,
     file_extension |-> PyUnset, new_audio_dir |-> PyUnset,
     temp_audio_file |-> PyUnset, client |-> "unset"]

NoArgs ==
    [api_key |-> PyUnset, voice_id |-> PyUnset, model |-> PyUnset,
     language |-> PyUnset, audio_format |-> PyUnset,
     loudness_normalization |-> FALSE, text_normalization |-> FALSE,
     clientRaises |-> FALSE, makedirsRaises |-> FALSE]

\* TTSEngine.__init__.  clientRaises and makedirsRaises are what the vendor
\* library and the operating system answer.  Three ways out:
\*   line 61 raises AttributeError when audio_format has no lower();
\*   line 85 raises OSError when the cache directory cannot be created;
\*   otherwise the constructor returns, with or without a client.
TTSEngine_init(a) ==
    /\ phase = "new"
    /\ args' = a
    /\ UNCHANGED <<fs, last, task, inv>>
    /\ LET assigned57 ==
               [UnsetEngine EXCEPT !.api_key = a.api_key,
                                   !.voice_id = a.voice_id,
                                   !.model = a.model,
                                   !.language = a.language]
       IN  IF ~IsStr(a.audio_format)
           THEN /\ phase' = "raised"
                /\ tts' = assigned57
                /\ initLog' = <<>>
                /\ UNCHANGED cacheDir
           ELSE LET fmt == ValidatedAudioFormat(a.audio_format)
                    assigned82 ==
                        [assigned57 EXCEPT
                            !.audio_format = PyStr(fmt),
                            !.loudness_normalization = a.loudness_normalization,
                            !.text_normalization = a.text_normalization,
                            !.model = ValidatedModel(a.model),
                            !.file_extension = FileExtension(PyStr(fmt)),
                            !.new_audio_dir = PyStr(S_cache),
                            !.temp_audio_file = PyStr(S_temp_speechify)]
                    log77 == AudioFormatLog(a.audio_format) \o ModelLog(a.model)
                IN  IF ~cacheDir /\ a.makedirsRaises
                    THEN /\ phase' = "raised"
                         /\ tts' = assigned82
                         /\ initLog' = log77
                         /\ UNCHANGED cacheDir
                    ELSE /\ phase' = "ready"
                         /\ cacheDir' = TRUE
                         /\ tts' = [assigned82 EXCEPT
                                       !.client = ClientOrNone(a.clientRaises)]
                         /\ initLog' = log77 \o ClientLog(a.clientRaises)

----------------------------------------------------------------------------
(* Helpers of generate_audio *)

\* TTSInterface.generate_cache_file_name: the file "<stem>.<extension>" of the
\* cache directory, and "temp.<extension>" when no stem is given.
generate_cache_file_name(file_name_no_ext, file_extension) ==
    S_cache \o <<"/">>
        \o (IF IsNone(file_name_no_ext) THEN S_temp ELSE file_name_no_ext.v)
        \o <<".">> \o file_extension.v

\* pathlib: str(Path(p)) keeps the components of p that are neither empty nor
\* ".", joined by single separators.
RECURSIVE PathParts(_, _)
PathParts(p, cur) ==
    IF p = <<>>
    THEN IF cur \in {<<>>, <<".">>} THEN <<>> ELSE <<cur>>
    ELSE IF Head(p) = "/"
         THEN (IF cur \in {<<>>, <<".">>} THEN <<>> ELSE <<cur>>)
                  \o PathParts(Tail(p), <<>>)
         ELSE PathParts(Tail(p), Append(cur, Head(p)))

RECURSIVE JoinParts(_)
JoinParts(parts) ==
    IF parts = <<>> THEN <<>>
    ELSE IF Len(parts) = 1 THEN Head(parts)
    ELSE Head(parts) \o <<"/">> \o JoinParts(Tail(parts))

Path(file_name) == JoinParts(PathParts(file_name, <<>>))

\* The six-bit values of the base64 letters the vendor payloads below use; any
\* other character but "=" is outside the alphabet here.
B64Value == [c \in {"A", "B", "I", "Q", "U"} |->
                CASE c = "A" -> 0 [] c = "B" -> 1 [] c = "I" -> 8
                  [] c = "Q" -> 16 [] c = "U" -> 20]

\* binascii.a2b_base64 as base64.b64decode calls it (not strict): characters
\* outside the alphabet are skipped, a complete pad ends the input, and data
\* that stops inside a quad is an error.
RECURSIVE B64Scan(_, _, _, _, _, _)
B64Scan(s, i, quad_pos, leftchar, pads, out) ==
    IF i > Len(s)
    THEN [ok |-> quad_pos = 0, bytes |-> out]
    ELSE IF s[i] = "="
    THEN IF quad_pos >= 2 /\ quad_pos + pads + 1 >= 4
         THEN [ok |-> TRUE, bytes |-> out]
         ELSE B64Scan(s, i + 1, quad_pos, leftchar,
                      IF quad_pos >= 2 THEN pads + 1 ELSE pads, out)
    ELSE IF s[i] \notin DOMAIN B64Value
    THEN B64Scan(s, i + 1, quad_pos, leftchar, pads, out)
    ELSE LET this_ch == B64Value[s[i]]
         IN  CASE quad_pos = 0 ->
                    B64Scan(s, i + 1, 1, this_ch, 0, out)
               [] quad_pos = 1 ->
                    B64Scan(s, i + 1, 2, this_ch % 16, 0,
                            Append(out, leftchar * 4 + (this_ch \div 16)))
               [] quad_pos = 2 ->
                    B64Scan(s, i + 1, 3, this_ch % 4, 0,
                            Append(out, leftchar * 16 + (this_ch \div 4)))
               [] quad_pos = 3 ->
                    B64Scan(s, i + 1, 0, 0, 0,
                            Append(out, leftchar * 64 + this_ch))

\* base64.b64decode(audio_data): TypeError for a value that is no string.
b64decode(audio_data) ==
    IF ~IsStr(audio_data)
    THEN [ok |-> FALSE, bytes |-> <<>>]
    ELSE B64Scan(audio_data.v, 1, 0, 0, 0, <<>>)

----------------------------------------------------------------------------
(* generate_audio *)

\* The cache directory's files.
NoFiles == [p \in {} |-> <<>>]
Exists(files, p) == p \in DOMAIN files
PutFile(files, p, bytes) ==
    [q \in DOMAIN files \cup {p} |-> IF q = p THEN bytes ELSE files[q]]
RemoveFile(files, p) == [q \in DOMAIN files \ {p} |-> files[q]]

Prefix(bytes, n) == SubSeq(bytes, 1, IF n < Len(bytes) THEN n ELSE Len(bytes))

\* Line 107: "if not self.client".
C4_Mutant_ClientNeverMissing(e) == FALSE

ClientMissing(e) == e.client # "Speechify"

\* Lines 133-146: the keyword arguments of client.tts.audio.speech.
C6_Mutant_OptionsSwapped(e, text) ==
    [audio_format |-> e.audio_format,
     input |-> PyStr(text),
     language |-> e.language,
     model |-> e.model,
     options |-> [loudness_normalization |-> e.text_normalization,
                  text_normalization |-> e.loudness_normalization],
     voice_id |-> e.voice_id]

SpeechRequest(e, text) ==
    [audio_format |-> e.audio_format,
     input |-> PyStr(text),
     language |-> e.language,
     model |-> e.model,
     options |-> [loudness_normalization |-> e.loudness_normalization,
                  text_normalization |-> e.text_normalization],
     voice_id |-> e.voice_id]

\* Lines 151-152: open(path, "wb") truncates or creates the file, write fills
\* it.  io = "open_raises": nothing is touched; io = "write_raises": the file
\* is left with the first `partial` bytes.
C7_Mutant_ShortWrite(files, path, bytes, io, partial) ==
    CASE io = "open_raises" -> files
      [] io = "write_raises" -> PutFile(files, path, Prefix(bytes, partial))
      [] OTHER -> PutFile(files, path, Prefix(bytes, 1))

WriteAudio(files, path, bytes, io, partial) ==
    CASE io = "open_raises" -> files
      [] io = "write_raises" -> PutFile(files, path, Prefix(bytes, partial))
      [] OTHER -> PutFile(files, path, bytes)

\* Lines 167-173: the file at the target path is removed if there is one; an
\* OSError of os.remove is logged and swallowed.
C9_Mutant_NoCleanUp(files, path, remove_raises) ==
    [files |-> files, removed |-> <<>>, log |-> <<>>]

C18_Mutant_KeepsEarlierFile(files, path, remove_raises) ==
    IF ~Exists(files, path) \/ files[path] # <<>>
    THEN [files |-> files, removed |-> <<>>, log |-> <<>>]
    ELSE [files |-> RemoveFile(files, path), removed |-> <<path>>, log |-> <<>>]

CleanUp(files, path, remove_raises) ==
    IF ~Exists(files, path)
    THEN [files |-> files, removed |-> <<>>, log |-> <<>>]
    ELSE IF remove_raises
    THEN [files |-> files, removed |-> <<path>>,
          log |-> <<LogEntry("error", "Could not remove incomplete file")>>]
    ELSE [files |-> RemoveFile(files, path), removed |-> <<path>>, log |-> <<>>]

\* A call that ends before the try block: nothing is asked of the vendor and
\* no file is touched.
C14_Mutant_RejectedAfterVendorCall(files, log) ==
    [ret |-> PyNone, raised |-> FALSE, requests |-> <<PyNone>>, log |-> log,
     files |-> files, path |-> PyNone, existed |-> FALSE, removed |-> <<>>]

C19_Mutant_RejectionClearsCache(files, log) ==
    [ret |-> PyNone, raised |-> FALSE, requests |-> <<>>, log |-> log,
     files |-> NoFiles, path |-> PyNone, existed |-> FALSE, removed |-> <<>>]

RejectedLocally(files, log) ==
    [ret |-> PyNone, raised |-> FALSE, requests |-> <<>>, log |-> log,
     files |-> files, path |-> PyNone, existed |-> FALSE, removed |-> <<>>]

\* TTSEngine.generate_audio on the engine e and the cache files `files`.  env
\* is what the outside answers: the vendor call (raises, or a response with
\* audio_data and perhaps billable_characters_count), the file write, and the
\* existence check and the os.remove of the clean-up.  The result names the
\* return value, whether the call raised instead of returning, the vendor
\* calls made, the log lines, the files afterwards, the target path, whether
\* a file was there when the call began, and the paths os.remove was called on.
generate_audio(e, files, text, file_name_no_ext, env) ==
    IF ClientMissing(e)
    THEN RejectedLocally(files,
             <<LogEntry("error", "Speechify client not initialized")>>)
    ELSE IF ~IsStr(text)
    THEN RejectedLocally(files,
             <<LogEntry("warning", "The text cannot be non-string"),
               LogEntry("warning", "Received type")>>)
    ELSE IF Strip(text.v) = <<>>
    THEN RejectedLocally(files,
             <<LogEntry("warning", "There is no text to speak")>>)
    ELSE
    LET stripped == Strip(text.v)
        file_name == generate_cache_file_name(file_name_no_ext, e.file_extension)
        speech_file_path == Path(file_name)
        request == SpeechRequest(e, stripped)
        decoded == b64decode(env.audio_data)
        failed == IF env.vendor_raises THEN "vendor"
                  ELSE IF ~decoded.ok THEN "decode"
                  ELSE IF env.io = "open_raises" THEN "open"
                  ELSE IF env.io = "write_raises" THEN "write"
                  ELSE "none"
        afterTry == IF failed \in {"vendor", "decode"}
                    THEN files
                    ELSE WriteAudio(files, speech_file_path, decoded.bytes,
                                    env.io, env.partial)
        cleaned == CleanUp(afterTry, speech_file_path, env.remove_raises)
    IN  IF failed = "none"
        THEN [ret |-> PyStr(speech_file_path),
              raised |-> FALSE,
              requests |-> <<request>>,
              log |-> <<LogEntry("debug", "Generating audio via Speechify"),
                        LogEntry("info", "Successfully generated audio file")>>
                      \o (IF env.billable
                          THEN <<LogEntry("debug", "Billable characters")>>
                          ELSE <<>>),
              files |-> afterTry,
              path |-> PyStr(speech_file_path),
              existed |-> Exists(files, speech_file_path),
              removed |-> <<>>]
        ELSE IF env.exists_raises
        \* Line 167 is inside the except block: an OSError of the existence
        \* check that pathlib does not swallow leaves generate_audio.
        THEN [ret |-> PyUnset,
              raised |-> TRUE,
              requests |-> <<request>>,
              log |-> <<LogEntry("debug", "Generating audio via Speechify"),
                        LogEntry("critical", "Speechify TTS unable to generate audio")>>,
              files |-> afterTry,
              path |-> PyStr(speech_file_path),
              existed |-> Exists(files, speech_file_path),
              removed |-> <<>>]
        ELSE [ret |-> PyNone,
              raised |-> FALSE,
              requests |-> <<request>>,
              log |-> <<LogEntry("debug", "Generating audio via Speechify"),
                        LogEntry("critical", "Speechify TTS unable to generate audio")>>
                      \o cleaned.log,
              files |-> cleaned.files,
              path |-> PyStr(speech_file_path),
              existed |-> Exists(files, speech_file_path),
              removed |-> cleaned.removed]

----------------------------------------------------------------------------
(* async_generate_audio *)

\* TTSInterface.async_generate_audio hands generate_audio and its two
\* arguments to a worker thread (asyncio.to_thread) ...
C10_Mutant_StemDropped(text, file_name_no_ext) ==
    [text |-> text, file_name_no_ext |-> PyNone]

to_thread_args(text, file_name_no_ext) ==
    [text |-> text, file_name_no_ext |-> file_name_no_ext]

\* ... and returns what the awaited call returned.
await_result(out) == out

----------------------------------------------------------------------------
(* filter_voice_models *)

\* A list argument, as Python passes it.
PyList(s) == [t |-> "list", v |-> s]

\* Python's truth value of an optional string or list: None and the empty
\* value are false.
Truthy(x) == ~IsNone(x) /\ x.v # <<>>

\* A voice as the vendor's voice list describes it; gender and locale are
\* strings of characters, tags and model names are opaque.
Voice(gender, tags, models) == [gender |-> gender, tags |-> tags, models |-> models]

VoiceModel(name, languages) == [name |-> name, languages |-> languages]

Language(locale) == [locale |-> locale]

SeqRange(s) == {s[i] : i \in 1..Len(s)}

\* `if gender and voice.gender.lower() != gender.lower(): continue`
C11_Mutant_GenderCaseSensitive(voice, gender) ==
    Truthy(gender) /\ voice.gender # gender.v

GenderSkips(voice, gender) ==
    Truthy(gender) /\ Lower(voice.gender) # Lower(gender.v)

\* `if locale: if not any(any(lang.locale == locale ...) ...): continue`
LocaleSkips(voice, locale) ==
    /\ Truthy(locale)
    /\ ~(\E m \in SeqRange(voice.models) :
            \E lang \in SeqRange(m.languages) : lang.locale = locale.v)

\* `if tags: if not all(tag in voice.tags for tag in tags): continue`
TagsSkips(voice, tags) ==
    /\ Truthy(tags)
    /\ ~(\A tag \in SeqRange(tags.v) : tag \in SeqRange(voice.tags))

\* `for model in voice.models: results.append(model.name)`
RECURSIVE AppendModelNames(_, _, _)
AppendModelNames(results, models, k) ==
    IF k > Len(models) THEN results
    ELSE AppendModelNames(Append(results, models[k].name), models, k + 1)

\* The loop over the voices, from the i-th voice on.
RECURSIVE FilterLoop(_, _, _, _, _, _)
FilterLoop(voices, i, results, gender, locale, tags) ==
    IF i > Len(voices) THEN results
    ELSE IF \/ GenderSkips(voices[i], gender)
            \/ LocaleSkips(voices[i], locale)
            \/ TagsSkips(voices[i], tags)
         THEN FilterLoop(voices, i + 1, results, gender, locale, tags)
         ELSE FilterLoop(voices, i + 1,
                         AppendModelNames(results, voices[i].models, 1),
                         gender, locale, tags)

\* filter_voice_models(voices, gender=, locale=, tags=): the list it returns
\* and the list it was given as the call leaves it.
filter_voice_models(voices, gender, locale, tags) ==
    [results |-> FilterLoop(voices, 1, <<>>, gender, locale, tags),
     voices |-> voices]

----------------------------------------------------------------------------
(* remove_file *)

\* TTSInterface.remove_file(filepath): a file that is there is deleted; when
\* there is none a warning is logged and nothing is done.  The result names
\* the files afterwards, the log lines and whether the call raised.
C12_Mutant_RemoveUnchecked(files, filepath) ==
    [files |-> RemoveFile(files, filepath), log |-> <<>>,
     raised |-> ~Exists(files, filepath)]

remove_file(files, filepath) ==
    IF ~Exists(files, filepath)
    THEN [files |-> files,
          log |-> <<LogEntry("warning", "File does not exist")>>,
          raised |-> FALSE]
    ELSE [files |-> RemoveFile(files, filepath), log |-> <<>>, raised |-> FALSE]

----------------------------------------------------------------------------
(* Inputs *)

\* The texts asked to be spoken: two values that are no strings, the empty and
\* a blank string, a plain text, and a text with whitespace around and inside.
Texts ==
    {PyNone, PyInt123, PyStr(<<>>), PyStr(<<" ", "\t">>), PyStr(<<"a">>),
     PyStr(<<" ", "a", " ", "b", "\n">>)}

\* The most bytes a failing write leaves in the file.
MaxPartial == 1

Stems == {PyNone, PyStr(<<"x">>)}

S_scott == <<"s", "c", "o", "t", "t">>
S_henry == <<"h", "e", "n", "r", "y">>
S_fr_FR == <<"f", "r", "-", "F", "R">>
S_key == <<"k", "e", "y">>

ArgsOver(voices, models, languages, formats, loudness, normalization, clients, makedirs) ==
    [api_key : {PyStr(S_key)},
     voice_id : voices,
     model : models,
     language : languages,
     audio_format : formats,
     loudness_normalization : loudness,
     text_normalization : normalization,
     clientRaises : clients,
     makedirsRaises : makedirs]

\* Every kind of constructor call: supported values, values that differ from a
\* supported one in letter case only, unsupported ones, and values of the
\* wrong type.
CtorArgs ==
    ArgsOver({PyStr(S_scott), PyStr(S_henry)},
             {PyStr(S_simba_english), PyStr(S_simba_multilingual),
              PyStr(<<"S", "i", "m", "b", "a", "-", "E", "n", "g", "l", "i", "s", "h">>),
              PyStr(<<"g", "p", "t">>), PyNone},
             {PyNone, PyStr(S_fr_FR)},
             {PyStr(S_mp3), PyStr(S_aac), PyStr(S_ogg), PyStr(S_wav),
              PyStr(<<"M", "P", "3">>), PyStr(<<"W", "a", "v">>),
              PyStr(<<"f", "l", "a", "c">>), PyStr(<<>>), PyNone, PyInt123},
             BOOLEAN, BOOLEAN, BOOLEAN, BOOLEAN)

\* The constructor calls the synthesis calls are explored after: a format
\* that is kept with a language and one that is replaced without a language,
\* a model that is replaced, with and without a client, none of the values a
\* default.
CallArgs ==
    ArgsOver({PyStr(S_henry)}, {PyStr(<<"g", "p", "t">>)}, {PyStr(S_fr_FR)},
             {PyStr(<<"W", "a", "v">>)}, {FALSE}, {TRUE}, BOOLEAN, {FALSE})
    \cup
    ArgsOver({PyStr(S_henry)}, {PyStr(<<"g", "p", "t">>)}, {PyNone},
             {PyStr(<<"f", "l", "a", "c">>)}, {FALSE}, {TRUE}, BOOLEAN, {FALSE})

\* Vendor payloads: "Q!Q==" (one byte, the character outside the alphabet is
\* skipped), "QUI=" (two bytes), "QQ" (incorrect padding), None (no string).
GoodPayloads == {PyStr(<<"Q", "!", "Q", "=", "=">>), PyStr(<<"Q", "U", "I", "=">>)}
BadPayloads == {PyStr(<<"Q", "Q">>), PyNone}

\* The answer never asked for, for a call that is rejected before the try block.
NoEnv ==
    [vendor_raises |-> FALSE, audio_data |-> PyNone, billable |-> FALSE,
     io |-> "ok", partial |-> 0, exists_raises |-> FALSE,
     remove_raises |-> FALSE]

\* The answers of the outside: the vendor call raises; the payload does not
\* decode; all goes well; the file cannot be opened; the write breaks off;
\* and, after a failed vendor call or open, the existence check of the
\* clean-up raises as well.
Envs ==
    {[NoEnv EXCEPT !.vendor_raises = TRUE, !.remove_raises = r] : r \in BOOLEAN}
    \cup {[NoEnv EXCEPT !.audio_data = d, !.remove_raises = r] :
              d \in BadPayloads, r \in BOOLEAN}
    \cup {[NoEnv EXCEPT !.audio_data = d, !.billable = b] :
              d \in GoodPayloads, b \in BOOLEAN}
    \cup {[NoEnv EXCEPT !.audio_data = d, !.io = "open_raises", !.remove_raises = r] :
              d \in GoodPayloads, r \in BOOLEAN}
    \cup {[NoEnv EXCEPT !.audio_data = d, !.io = "write_raises", !.partial = n,
                        !.remove_raises = r] :
              d \in GoodPayloads, n \in 0..MaxPartial, r \in BOOLEAN}
    \cup {[NoEnv EXCEPT !.vendor_raises = TRUE, !.exists_raises = TRUE]}
    \cup {[NoEnv EXCEPT !.audio_data = d, !.io = "open_raises",
                        !.exists_raises = TRUE] : d \in GoodPayloads}

ReachesVendor(e, text) ==
    ~ClientMissing(e) /\ IsStr(text) /\ Strip(text.v) # <<>>

EnvsFor(e, text) == IF ReachesVendor(e, text) THEN Envs ELSE {NoEnv}

\* The voice lists filter_voice_models is given: a male and a female voice
\* with one model each, a voice whose gender is capitalised and whose two
\* models repeat a name and a locale of the others, and a voice without models.
S_en_US == <<"e", "n", "-", "U", "S">>
S_male == <<"m", "a", "l", "e">>
S_female == <<"f", "e", "m", "a", "l", "e">>

VoicePool ==
    {Voice(S_male, <<"deep">>, <<VoiceModel("m1", <<Language(S_en_US)>>)>>),
     Voice(S_female, <<"bright">>, <<VoiceModel("m2", <<Language(S_fr_FR)>>)>>),
     Voice(<<"M", "a", "l", "e">>, <<"deep", "bright">>,
           <<VoiceModel("m1", <<Language(S_en_US)>>),
             VoiceModel("m3", <<Language(S_fr_FR), Language(S_en_US)>>)>>),
     Voice(S_female, <<>>, <<>>)}

\* The most voices in a list.
MaxVoices == 2

VoiceLists == UNION {[1..k -> VoicePool] : k \in 0..MaxVoices}

GenderFilters ==
    {PyNone, PyStr(<<>>), PyStr(S_male), PyStr(<<"M", "A", "L", "E">>), PyStr(S_female)}

LocaleFilters == {PyNone, PyStr(<<>>), PyStr(S_en_US), PyStr(S_fr_FR)}

TagFilters == {PyNone, PyList(<<>>), PyList(<<"deep">>), PyList(<<"deep", "bright">>)}

\* The one constructor call the voice filter is explored after.
FilterArgs ==
    ArgsOver({PyStr(S_henry)}, {PyStr(S_simba_english)}, {PyNone},
             {PyStr(S_mp3)}, {FALSE}, {TRUE}, {FALSE}, {FALSE})

\* The paths remove_file is called on: the cache files of the engine e.
CachePaths(e) ==
    {Path(generate_cache_file_name(stem, e.file_extension)) : stem \in Stems}

\* The voice list and the filters of the filter calls made between synthesis
\* calls.
SomeVoices ==
    <<Voice(S_male, <<"deep">>, <<VoiceModel("m1", <<Language(S_en_US)>>)>>),
      Voice(S_female, <<"bright">>, <<VoiceModel("m2", <<Language(S_fr_FR)>>)>>)>>

\* The texts of the calls that explore the trimming: every string of at most
\* MaxTextLen characters out of two kinds of whitespace and two letters.
TextChars == {" ", "\t", "a", "b"}

MaxTextLen == 3

WideTexts == {PyStr(s) : s \in UNION {[1..n -> TextChars] : n \in 0..MaxTextLen}}

\* The one constructor call and the two answers of the vendor they are
\* explored with.
TextArgs ==
    ArgsOver({PyStr(S_henry)}, {PyStr(S_simba_english)}, {PyNone},
             {PyStr(S_mp3)}, {FALSE}, {TRUE}, {FALSE}, {FALSE})

TextEnvs ==
    {[NoEnv EXCEPT !.vendor_raises = TRUE],
     [NoEnv EXCEPT !.audio_data = PyStr(<<"Q", "U", "I", "=">>)]}

\* The calls that run side by side: one constructor call with and without a
\* client, a valid and an empty text, and what the vendor answers.
ConcArgs ==
    ArgsOver({PyStr(S_henry)}, {PyStr(S_simba_english)}, {PyNone},
             {PyStr(S_mp3)}, {FALSE}, {TRUE}, BOOLEAN, {FALSE})

ConcTexts == {PyStr(<<"a">>), PyStr(<<>>)}

EarlierEnv == [NoEnv EXCEPT !.audio_data = PyStr(<<"Q", "U", "I", "=">>)]

VendorAnswers ==
    {[vendor_raises |-> TRUE, audio_data |-> PyNone]}
    \cup {[vendor_raises |-> FALSE, audio_data |-> d] :
              d \in GoodPayloads \cup {PyStr(<<"Q", "Q">>)}}

----------------------------------------------------------------------------
(* The state machine *)

NoOut == RejectedLocally(NoFiles, <<>>)

NoCall ==
    [kind |-> "none", text |-> PyNone, file_name_no_ext |-> PyNone,
     env |-> NoEnv, out |-> NoOut]

IdleTask ==
    [state |-> "idle", text |-> PyNone, file_name_no_ext |-> PyNone,
     fn_args |-> to_thread_args(PyNone, PyNone), env |-> NoEnv, out |-> NoOut]

\* The calls that run side by side, and a call that has not begun.
Invocations == {1, 2}

IdleInvocation ==
    [pc |-> "idle", text |-> PyNone, file_name_no_ext |-> PyNone,
     path |-> <<>>, pre |-> NoFiles, bytes |-> <<>>, orphan |-> FALSE,
     env |-> NoEnv, ret |-> PyUnset]

Init ==
    /\ phase = "new"
    /\ args = NoArgs
    /\ tts = UnsetEngine
    /\ initLog = <<>>
    /\ cacheDir \in BOOLEAN
    /\ fs = NoFiles
    /\ last = NoCall
    /\ task = IdleTask
    /\ inv = [i \in Invocations |-> IdleInvocation]

\* A synchronous generate_audio(text, file_name_no_ext) call, start to return
\* or raise.
C16_Mutant_DisabledAfterFailure(text, file_name_no_ext, env) ==
    /\ phase = "ready"
    /\ task.state = "idle"
    /\ last' = [kind |-> "sync", text |-> text,
                file_name_no_ext |-> file_name_no_ext, env |-> env,
                out |-> generate_audio(tts, fs, text, file_name_no_ext, env)]
    /\ fs' = last'.out.files
    /\ tts' = IF last'.out.ret = PyNone /\ last'.out.requests # <<>>
              THEN [tts EXCEPT !.client = "None"]
              ELSE tts
    /\ UNCHANGED <<phase, args, initLog, cacheDir, task, inv>>

GenerateAudio(text, file_name_no_ext, env) ==
    /\ phase = "ready"
    /\ task.state = "idle"
    /\ last' = [kind |-> "sync", text |-> text,
                file_name_no_ext |-> file_name_no_ext, env |-> env,
                out |-> generate_audio(tts, fs, text, file_name_no_ext, env)]
    /\ fs' = last'.out.files
    /\ UNCHANGED <<phase, args, tts, initLog, cacheDir, task, inv>>

\* async_generate_audio(text, file_name_no_ext) is called: the work is handed
\* to a worker thread and the caller's coroutine is suspended.
AsyncDispatch(text, file_name_no_ext) ==
    /\ phase = "ready"
    /\ task.state = "idle"
    /\ task' = [IdleTask EXCEPT
                   !.state = "pending",
                   !.text = text,
                   !.file_name_no_ext = file_name_no_ext,
                   !.fn_args = to_thread_args(text, file_name_no_ext)]
    /\ last' = NoCall
    /\ UNCHANGED <<phase, args, tts, initLog, cacheDir, fs, inv>>

\* The worker thread runs generate_audio with the arguments it was handed.
AsyncRun(env) ==
    /\ task.state = "pending"
    /\ task' = [task EXCEPT
                   !.state = "ran",
                   !.env = env,
                   !.out = generate_audio(tts, fs, task.fn_args.text,
                                          task.fn_args.file_name_no_ext, env)]
    /\ fs' = task'.out.files
    /\ UNCHANGED <<phase, args, tts, initLog, cacheDir, last, inv>>

\* The event loop resumes the caller with the worker's result.
AsyncAwait ==
    /\ task.state = "ran"
    /\ last' = [kind |-> "async", text |-> task.text,
                file_name_no_ext |-> task.file_name_no_ext,
                env |-> task.env, out |-> await_result(task.out)]
    /\ task' = IdleTask
    /\ UNCHANGED <<phase, args, tts, initLog, cacheDir, fs, inv>>

\* A filter_voice_models(voices, gender=, locale=, tags=) call, start to return.
FilterVoices(voices, gender, locale, tags) ==
    /\ phase = "ready"
    /\ task.state = "idle"
    /\ last' = [kind |-> "filter_voice_models", voices |-> voices,
                gender |-> gender, locale |-> locale, tags |-> tags,
                out |-> filter_voice_models(voices, gender, locale, tags)]
    /\ UNCHANGED <<phase, args, tts, initLog, cacheDir, fs, task, inv>>

\* A remove_file(filepath) call, start to return.
RemoveFileCall(filepath) ==
    /\ phase = "ready"
    /\ task.state = "idle"
    /\ last' = [kind |-> "remove_file", filepath |-> filepath,
                existed |-> Exists(fs, filepath),
                out |-> remove_file(fs, filepath)]
    /\ fs' = last'.out.files
    /\ UNCHANGED <<phase, args, tts, initLog, cacheDir, task, inv>>

\* generate_audio step by step, for the calls that run side by side.  A step
\* is what one call does to the files between two points at which another
\* call can run.

\* Lines 107-124: the three checks and the target path; `pre` keeps what is
\* at that path when the call begins.
Begin(i, text, file_name_no_ext) ==
    /\ phase = "ready"
    /\ inv[i].pc = "idle"
    /\ inv' = [inv EXCEPT ![i] =
                  IF ClientMissing(tts) \/ ~IsStr(text) \/ Strip(text.v) = <<>>
                  THEN [IdleInvocation EXCEPT
                           !.pc = "done", !.text = text,
                           !.file_name_no_ext = file_name_no_ext,
                           !.ret = PyNone]
                  ELSE LET speech_file_path ==
                               Path(generate_cache_file_name(
                                        file_name_no_ext, tts.file_extension))
                       IN  [IdleInvocation EXCEPT
                               !.pc = "vendor", !.text = text,
                               !.file_name_no_ext = file_name_no_ext,
                               !.path = speech_file_path,
                               !.pre = [q \in DOMAIN fs \cap {speech_file_path}
                                            |-> fs[q]]]]
    /\ UNCHANGED <<phase, args, tts, initLog, cacheDir, fs, last, task>>

\* Lines 126-149: the vendor call and the decoding of its payload.
CallVendor(i, answer) ==
    /\ inv[i].pc = "vendor"
    /\ LET decoded == b64decode(answer.audio_data)
           failed == answer.vendor_raises \/ ~decoded.ok
       IN  inv' = [inv EXCEPT ![i] =
                      [@ EXCEPT !.pc = IF failed THEN "handler" ELSE "open",
                                !.bytes = IF failed THEN <<>> ELSE decoded.bytes,
                                !.env = [@ EXCEPT
                                            !.vendor_raises = answer.vendor_raises,
                                            !.audio_data = answer.audio_data]]]
    /\ UNCHANGED <<phase, args, tts, initLog, cacheDir, fs, last, task>>

\* Line 151: open(path, "wb") creates the file or empties the one that is
\* there.
OpenFile(i, raises) ==
    /\ inv[i].pc = "open"
    /\ IF raises
       THEN /\ inv' = [inv EXCEPT ![i] =
                          [@ EXCEPT !.pc = "handler",
                                    !.env = [@ EXCEPT !.io = "open_raises"]]]
            /\ fs' = fs
       ELSE /\ inv' = [inv EXCEPT ![i] = [@ EXCEPT !.pc = "write", !.orphan = FALSE]]
            /\ fs' = PutFile(fs, inv[i].path, <<>>)
    /\ UNCHANGED <<phase, args, tts, initLog, cacheDir, last, task>>

\* Bytes written from the start of a file over what is there.
WriteAt(old, written) == written \o SubSeq(old, Len(written) + 1, Len(old))

\* Line 152 and the end of the with block: the bytes reach the file that was
\* opened, from its start; they are lost with it when it has been removed
\* since.  A write that raises leaves the first `partial` bytes.
WriteFile(i, raises, partial) ==
    /\ inv[i].pc = "write"
    /\ LET written == IF raises THEN Prefix(inv[i].bytes, partial) ELSE inv[i].bytes
       IN  fs' = IF inv[i].orphan
                 THEN fs
                 ELSE PutFile(fs, inv[i].path, WriteAt(fs[inv[i].path], written))
    /\ inv' = [inv EXCEPT ![i] =
                  IF raises
                  THEN [@ EXCEPT !.pc = "handler",
                                 !.env = [@ EXCEPT !.io = "write_raises",
                                                   !.partial = partial]]
                  ELSE [@ EXCEPT !.pc = "return"]]
    /\ UNCHANGED <<phase, args, tts, initLog, cacheDir, last, task>>

\* Lines 154-176: the log lines and `return str(speech_file_path)`.
ReturnPath(i) ==
    /\ inv[i].pc = "return"
    /\ inv' = [inv EXCEPT ![i] = [@ EXCEPT !.pc = "done", !.ret = PyStr(inv[i].path)]]
    /\ UNCHANGED <<phase, args, tts, initLog, cacheDir, fs, last, task>>

\* Lines 164-167 and 174: the critical log line and the existence check; with
\* no file at the path the call returns None.
HandleException(i) ==
    /\ inv[i].pc = "handler"
    /\ inv' = [inv EXCEPT ![i] =
                  IF Exists(fs, inv[i].path)
                  THEN [@ EXCEPT !.pc = "remove"]
                  ELSE [@ EXCEPT !.pc = "done", !.ret = PyNone]]
    /\ UNCHANGED <<phase, args, tts, initLog, cacheDir, fs, last, task>>

\* Lines 168-174: os.remove and `return None`.  An OSError, also that of a
\* file that is no longer there, is logged and swallowed; a file that is
\* removed while another call has it open is lost to that call.
C17_Mutant_RemoveClearsCache(i, raises) ==
    /\ inv[i].pc = "remove"
    /\ fs' = NoFiles
    /\ inv' = [inv EXCEPT ![i] = [@ EXCEPT !.pc = "done", !.ret = PyNone]]
    /\ UNCHANGED <<phase, args, tts, initLog, cacheDir, last, task>>

RemoveIncomplete(i, raises) ==
    /\ inv[i].pc = "remove"
    /\ IF ~Exists(fs, inv[i].path)
       THEN /\ fs' = fs
            /\ inv' = [inv EXCEPT ![i] = [@ EXCEPT !.pc = "done", !.ret = PyNone]]
       ELSE IF raises
       THEN /\ fs' = fs
            /\ inv' = [inv EXCEPT ![i] =
                          [@ EXCEPT !.pc = "done", !.ret = PyNone,
                                    !.env = [@ EXCEPT !.remove_raises = TRUE]]]
       ELSE /\ fs' = RemoveFile(fs, inv[i].path)
            /\ inv' = [j \in Invocations |->
                          IF j = i
                          THEN [inv[i] EXCEPT !.pc = "done", !.ret = PyNone]
                          ELSE IF inv[j].pc = "write" /\ inv[j].path = inv[i].path
                          THEN [inv[j] EXCEPT !.orphan = TRUE]
                          ELSE inv[j]]
    /\ UNCHANGED <<phase, args, tts, initLog, cacheDir, last, task>>

Next ==
    \/ \E a \in CallArgs : TTSEngine_init(a)
    \/ \E text \in Texts, stem \in Stems :
           \E env \in EnvsFor(tts, text) : GenerateAudio(text, stem, env)
    \/ \E text \in Texts, stem \in Stems : AsyncDispatch(text, stem)
    \/ \E env \in EnvsFor(tts, task.fn_args.text) : AsyncRun(env)
    \/ AsyncAwait
    \/ \E filepath \in CachePaths(tts) : RemoveFileCall(filepath)
    \/ \E gender \in {PyNone, PyStr(S_male)} :
           FilterVoices(SomeVoices, gender, PyNone, PyNone)

Spec == Init /\ [][Next]_vars

\* The constructor alone, over every kind of argument.
CtorNext == \E a \in CtorArgs : TTSEngine_init(a)

SpecCtor == Init /\ [][CtorNext]_vars

\* The voice filter alone: one call on a new engine, over every voice list
\* and filter.
FilterNext ==
    \/ \E a \in FilterArgs : TTSEngine_init(a)
    \/ /\ last = NoCall
       /\ \E voices \in VoiceLists, gender \in GenderFilters :
              \E locale \in LocaleFilters, tags \in TagFilters :
                  FilterVoices(voices, gender, locale, tags)

SpecFilter == Init /\ [][FilterNext]_vars

\* generate_audio alone: one call on a new engine, over every text.
TextNext ==
    \/ \E a \in TextArgs : TTSEngine_init(a)
    \/ /\ last = NoCall
       /\ \E text \in WideTexts, env \in TextEnvs :
              GenerateAudio(text, PyNone, env)

SpecText == Init /\ [][TextNext]_vars

\* Two generate_audio calls on one engine, their steps in any order, after
\* earlier calls that have left their files in the cache.
ConcNext ==
    \/ \E a \in ConcArgs : TTSEngine_init(a)
    \/ /\ \A i \in Invocations : inv[i].pc = "idle"
       /\ \E stem \in Stems : GenerateAudio(PyStr(<<"a">>), stem, EarlierEnv)
    \/ \E i \in Invocations, text \in ConcTexts, stem \in Stems :
           Begin(i, text, stem)
    \/ \E i \in Invocations, answer \in VendorAnswers : CallVendor(i, answer)
    \/ \E i \in Invocations, raises \in BOOLEAN : OpenFile(i, raises)
    \/ \E i \in Invocations, raises \in BOOLEAN, partial \in 0..MaxPartial :
           WriteFile(i, raises, partial)
    \/ \E i \in Invocations : ReturnPath(i)
    \/ \E i \in Invocations : HandleException(i)
    \/ \E i \in Invocations, raises \in BOOLEAN : RemoveIncomplete(i, raises)

SpecConc == Init /\ [][ConcNext]_vars

----------------------------------------------------------------------------
(* Properties of the constructor, checked under SpecCtor *)

Count(log, level) == Cardinality({i \in DOMAIN log : log[i].level = level})
Logged(log, level, msg) == \E i \in DOMAIN log : log[i] = LogEntry(level, msg)

\* C1 as stated: an audio_format that is not one of aac, mp3, ogg, wav is
\* replaced by mp3 with a warning, one of the four is kept as given.
C1_AsStated ==
    phase = "ready" =>
        IF args.audio_format.v \in SupportedFormats
        THEN /\ tts.audio_format = args.audio_format
             /\ ~Logged(initLog, "warning", "Unsupported audio format")
        ELSE /\ tts.audio_format = PyStr(S_mp3)
             /\ Logged(initLog, "warning", "Unsupported audio format")

\* C1, amended: whenever the constructor returns, an audio_format whose
\* lower-cased form is not one of aac, mp3, ogg, wav has been replaced by mp3
\* with a warning, any other has been kept in its lower-cased form without a
\* warning, and so the effective format and the file extension are one of
\* the four.
C1_EffectiveAudioFormat ==
    phase = "ready" =>
        /\ IF Lower(args.audio_format.v) \in SupportedFormats
           THEN /\ tts.audio_format = PyStr(Lower(args.audio_format.v))
                /\ ~Logged(initLog, "warning", "Unsupported audio format")
           ELSE /\ tts.audio_format = PyStr(S_mp3)
                /\ Logged(initLog, "warning", "Unsupported audio format")
        /\ tts.audio_format.v \in SupportedFormats

C1_Witness ==
    /\ phase = "ready"
    /\ args.audio_format = PyStr(<<"f", "l", "a", "c">>)
    /\ tts.audio_format = PyStr(S_mp3)

\* C2: whenever the constructor returns, a model that is not exactly
\* simba-english or simba-multilingual has been replaced by simba-english
\* with a warning, one of the two has been kept as given without a warning,
\* and so the effective model is one of the two.
C2_EffectiveModel ==
    phase = "ready" =>
        /\ IF IsStr(args.model) /\ args.model.v \in SupportedModels
           THEN /\ tts.model = args.model
                /\ ~Logged(initLog, "warning", "Unsupported model")
           ELSE /\ tts.model = PyStr(S_simba_english)
                /\ Logged(initLog, "warning", "Unsupported model")
        /\ tts.model.v \in SupportedModels

C2_Witness ==
    /\ phase = "ready"
    /\ args.model = PyStr(<<"g", "p", "t">>)
    /\ tts.model = PyStr(S_simba_english)

\* C3 as stated: a constructor call never raises, whatever its arguments, and
\* when the vendor client cannot be built the engine is left without a client
\* and exactly one critical error is logged.
C3_ConstructionNeverRaises ==
    phase # "new" =>
        /\ phase = "ready"
        /\ args.clientRaises =>
               /\ tts.client = "None"
               /\ Count(initLog, "critical") = 1

----------------------------------------------------------------------------
(* Properties of generate_audio, checked under Spec *)

\* The generate_audio calls that have returned and are still on record: the
\* last call, and the call a worker has finished and the caller still awaits.
DoneCalls ==
    (IF last.kind \in {"sync", "async"}
     THEN {[text |-> last.text, file_name_no_ext |-> last.file_name_no_ext,
            env |-> last.env, out |-> last.out]}
     ELSE {})
    \cup
    (IF task.state = "ran"
     THEN {[text |-> task.fn_args.text,
            file_name_no_ext |-> task.fn_args.file_name_no_ext,
            env |-> task.env, out |-> task.out]}
     ELSE {})

AllWhitespace(s) == \A i \in DOMAIN s : s[i] \in Whitespace
ValidText(text) == IsStr(text) /\ ~AllWhitespace(text.v)

\* What the claims expect of the cache path, written out.
ExpectedPath(stem, format) ==
    <<"c", "a", "c", "h", "e", "/">>
        \o (IF stem = PyNone THEN <<"t", "e", "m", "p">> ELSE stem.v)
        \o <<".">> \o format

\* What the payloads decode to (base64.b64decode of CPython on the same text).
DecodedPayload(audio_data) ==
    CASE audio_data = PyStr(<<"Q", "!", "Q", "=", "=">>) -> <<65>>
      [] audio_data = PyStr(<<"Q", "U", "I", "=">>) -> <<65, 66>>

\* C4: an engine built while the vendor client could not be constructed has
\* no client, and every generate_audio call on an engine without a client
\* returns None and asks nothing of the vendor.
C4_DisabledAlwaysFails ==
    /\ (phase = "ready" /\ args.clientRaises) => tts.client = "None"
    /\ \A c \in DoneCalls :
           tts.client = "None" =>
               /\ c.out.ret = PyNone
               /\ c.out.requests = <<>>

C4_Witness ==
    /\ tts.client = "None"
    /\ last.kind = "sync"
    /\ last.text = PyStr(<<"a">>)
    /\ last.out.ret = PyNone

\* C5: on an engine with a client, a text that is no string, or a string of
\* nothing but whitespace, makes generate_audio return None without a vendor
\* call.
C5_InvalidTextRejected ==
    \A c \in DoneCalls :
        (tts.client = "Speechify" /\ ~ValidText(c.text)) =>
            /\ c.out.ret = PyNone
            /\ c.out.requests = <<>>

C5_Witness ==
    /\ tts.client = "Speechify"
    /\ last.kind = "sync"
    /\ last.text = PyStr(<<" ", "\t">>)
    /\ last.out.ret = PyNone

\* C6: on an engine with a client, a valid text makes generate_audio issue
\* the vendor call that carries the engine's validated format and model, its
\* language, voice id and the two normalization flags as constructed, and
\* the text (stripped, as the code passes it on).
C6_RequestCarriesConfiguration ==
    \A c \in DoneCalls :
        (tts.client = "Speechify" /\ ValidText(c.text)) =>
            /\ c.out.requests =
                   << [audio_format |-> tts.audio_format,
                       input |-> PyStr(Strip(c.text.v)),
                       language |-> args.language,
                       model |-> tts.model,
                       options |->
                           [loudness_normalization |-> args.loudness_normalization,
                            text_normalization |-> args.text_normalization],
                       voice_id |-> args.voice_id] >>
            /\ tts.audio_format.v \in SupportedFormats
            /\ tts.model.v \in SupportedModels

C6_Witness ==
    /\ last.kind = "sync"
    /\ Len(last.out.requests) = 1
    /\ args.audio_format = PyStr(<<"f", "l", "a", "c">>)
    /\ last.out.requests[1].audio_format = PyStr(S_mp3)
    /\ last.out.requests[1].language = PyNone

\* C7: when a generate_audio call of a sequential execution has returned a
\* path, the path is <cache>/<stem or temp>.<format>, the file at that path
\* holds the decoded payload of this call's vendor response, and the vendor
\* call, the decoding and the write have all succeeded.
C7_ReturnedPathHoldsAudio ==
    \A c \in DoneCalls :
        IsStr(c.out.ret) =>
            LET path == ExpectedPath(c.file_name_no_ext, tts.audio_format.v)
            IN  /\ c.out.ret = PyStr(path)
                /\ path \in DOMAIN fs
                /\ ~c.env.vendor_raises
                /\ c.env.audio_data \in GoodPayloads
                /\ c.env.io = "ok"
                /\ fs[path] = DecodedPayload(c.env.audio_data)

C7_Witness ==
    /\ last.kind = "sync"
    /\ last.out.ret = PyStr(ExpectedPath(PyStr(<<"x">>), S_wav))
    /\ last.out.existed
    /\ last.env.audio_data = PyStr(<<"Q", "U", "I", "=">>)
    /\ fs[ExpectedPath(PyStr(<<"x">>), S_wav)] = <<65, 66>>

\* C8: generate_cache_file_name maps a stem s and an extension f to
\* cache/s.f and no stem to cache/temp.f, and the path generate_audio works
\* on is that of its stem and the engine's validated format.
C8_CacheFileName ==
    /\ \A f \in SupportedFormats :
           /\ generate_cache_file_name(PyStr(<<"x">>), PyStr(f)) =
                  <<"c", "a", "c", "h", "e", "/", "x", ".">> \o f
           /\ generate_cache_file_name(PyNone, PyStr(f)) =
                  <<"c", "a", "c", "h", "e", "/", "t", "e", "m", "p", ".">> \o f
    /\ \A c \in DoneCalls :
           (tts.client = "Speechify" /\ ValidText(c.text)) =>
               c.out.path =
                   PyStr(ExpectedPath(c.file_name_no_ext, tts.audio_format.v))

C8_Witness ==
    /\ last.kind = "sync"
    /\ last.file_name_no_ext = PyNone
    /\ args.audio_format = PyStr(<<"W", "a", "v">>)
    /\ last.out.path =
           PyStr(<<"c", "a", "c", "h", "e", "/", "t", "e", "m", "p", ".", "w", "a", "v">>)

\* An exception in the try block: the vendor call raised, the payload does
\* not decode, or the file could not be opened or written.
TryFailed(c) ==
    /\ tts.client = "Speechify"
    /\ ValidText(c.text)
    /\ \/ c.env.vendor_raises
       \/ c.env.audio_data \in BadPayloads
       \/ c.env.io # "ok"

\* Whether a file was at the target path when the exception was handled: it
\* was there before the call, or the failing write has created it.
FileAtHandler(c) ==
    \/ c.out.existed
    \/ ~c.env.vendor_raises /\ c.env.audio_data \in GoodPayloads
           /\ c.env.io = "write_raises"

\* C9 as stated: when the vendor call, the decoding or the write raises,
\* generate_audio logs exactly one critical error, calls os.remove on the
\* target path if and only if a file is there, and returns None; a removal
\* that does not fail leaves no file at the path.
C9_FailureCleansUp ==
    \A c \in DoneCalls :
        TryFailed(c) =>
            /\ Count(c.out.log, "critical") = 1
            /\ c.out.ret = PyNone
            /\ c.out.removed =
                   IF FileAtHandler(c) THEN <<c.out.path.v>> ELSE <<>>
            /\ (FileAtHandler(c) /\ ~c.env.remove_raises) =>
                   c.out.path.v \notin DOMAIN fs

C9_Witness ==
    /\ last.kind = "sync"
    /\ last.env.io = "write_raises"
    /\ ~last.out.existed
    /\ last.out.removed = <<last.out.path.v>>
    /\ last.out.ret = PyNone
    /\ last.out.path.v \notin DOMAIN fs

\* C10: what the worker of async_generate_audio(text, stem) does is a run of
\* generate_audio(text, stem) on the engine and the files as they are then,
\* under some answer of the outside; the awaiting caller gets that run's
\* result unchanged; and once the run has returned nothing keeps the await
\* from completing.
C10_WorkerStep ==
    (task.state = "pending" /\ task'.state = "ran") =>
        \E env \in EnvsFor(tts, task.text) :
            LET out == generate_audio(tts, fs, task.text,
                                      task.file_name_no_ext, env)
            IN  /\ task'.out = out
                /\ fs' = out.files

C10_AwaitStep ==
    (task.state = "ran" /\ task'.state = "idle") =>
        /\ last' = [kind |-> "async", text |-> task.text,
                    file_name_no_ext |-> task.file_name_no_ext,
                    env |-> task.env, out |-> task.out]
        /\ fs' = fs

C10_AsyncEquivalent ==
    /\ [][C10_WorkerStep /\ C10_AwaitStep]_vars
    /\ [](task.state = "ran" => ENABLED AsyncAwait)

C10_Witness ==
    /\ last.kind = "async"
    /\ last.file_name_no_ext = PyStr(<<"x">>)
    /\ last.out.ret = PyStr(ExpectedPath(PyStr(<<"x">>), tts.audio_format.v))

----------------------------------------------------------------------------
(* Properties of filter_voice_models, checked under SpecFilter *)

\* Two strings are equal ignoring letter case.
SameLetter(c, d) ==
    \/ c = d
    \/ \E k \in DOMAIN UpperLetters :
           {c, d} = {UpperLetters[k], LowerLetters[k]}

EqualIgnoringCase(a, b) ==
    Len(a) = Len(b) /\ \A i \in DOMAIN a : SameLetter(a[i], b[i])

\* A filter is not applied: it is not given or, unless every given filter
\* counts, it is empty.
Absent(everyGivenCounts, f) ==
    IsNone(f) \/ (~everyGivenCounts /\ f.v = <<>>)

\* A voice matches the filters.
VoiceMatches(strict, voice, gender, locale, tags) ==
    /\ Absent(strict, gender) \/ EqualIgnoringCase(voice.gender, gender.v)
    /\ Absent(strict, locale) \/ \E k \in DOMAIN voice.models :
                             \E n \in DOMAIN voice.models[k].languages :
                                 voice.models[k].languages[n].locale = locale.v
    /\ Absent(strict, tags) \/ \A n \in DOMAIN tags.v :
                           \E k \in DOMAIN voice.tags : voice.tags[k] = tags.v[n]

\* The model names of the voices that match, in input order.
RECURSIVE NamesOfMatching(_, _, _, _, _)
NamesOfMatching(strict, voices, gender, locale, tags) ==
    IF voices = <<>> THEN <<>>
    ELSE (IF VoiceMatches(strict, Head(voices), gender, locale, tags)
          THEN [k \in DOMAIN Head(voices).models |-> Head(voices).models[k].name]
          ELSE <<>>)
         \o NamesOfMatching(strict, Tail(voices), gender, locale, tags)

\* Every model name of every voice is in the list, which is no longer than
\* the models are many.
RECURSIVE CountModels(_)
CountModels(voices) ==
    IF voices = <<>> THEN 0
    ELSE Len(Head(voices).models) + CountModels(Tail(voices))

ListsEveryModel(results, voices) ==
    /\ Len(results) = CountModels(voices)
    /\ \A i \in DOMAIN voices : \A k \in DOMAIN voices[i].models :
           \E n \in DOMAIN results : results[n] = voices[i].models[k].name

\* C11 as stated: the list returned is the concatenation, in input order, of
\* the model names of the voices that match, a filter being applied whenever
\* one is given.
C11_AsStated ==
    last.kind = "filter_voice_models" =>
        last.out.results =
            NamesOfMatching(TRUE, last.voices, last.gender,
                            last.locale, last.tags)

\* C11, amended: the list returned is the concatenation, in input order, of
\* the model names of the voices that match, nothing deduplicated, where a
\* filter that is not given or is empty is not applied; with no filters it
\* lists every model name of every voice.
C11_FilterResult ==
    last.kind = "filter_voice_models" =>
        /\ last.out.results =
               NamesOfMatching(FALSE, last.voices, last.gender,
                               last.locale, last.tags)
        /\ (IsNone(last.gender) /\ IsNone(last.locale) /\ IsNone(last.tags)) =>
               ListsEveryModel(last.out.results, last.voices)

\* A filter by gender in other letter case, locale and tags keeps the second
\* of two voices, whose two models repeat the name the first would have given.
C11_Witness ==
    /\ last.kind = "filter_voice_models"
    /\ Len(last.voices) = 2
    /\ last.voices[1].gender = S_female
    /\ last.gender = PyStr(<<"M", "A", "L", "E">>)
    /\ last.locale = PyStr(S_fr_FR)
    /\ last.tags = PyList(<<"deep", "bright">>)
    /\ last.out.results = <<"m1", "m3">>

----------------------------------------------------------------------------
(* Properties of remove_file, checked under Spec *)

\* C12: a remove_file call never raises; on a path where a file is it deletes
\* that file and no other and returns; on a path where no file is it leaves
\* the files as they are, logs exactly one warning and returns.
C12_RemoveStep ==
    (last'.kind = "remove_file" /\ last' # last) =>
        /\ ~last'.out.raised
        /\ IF last'.filepath \in DOMAIN fs
           THEN /\ last'.filepath \notin DOMAIN fs'
                /\ DOMAIN fs' = DOMAIN fs \ {last'.filepath}
                /\ \A q \in DOMAIN fs' : fs'[q] = fs[q]
           ELSE /\ fs' = fs
                /\ Count(last'.out.log, "warning") = 1

C12_RemoveFileNeverRaises == [][C12_RemoveStep]_vars

\* A cache file written by a synthesis call has been removed.
C12_Witness ==
    /\ last.kind = "remove_file"
    /\ last.existed
    /\ ~last.out.raised
    /\ last.filepath \notin DOMAIN fs

----------------------------------------------------------------------------
(* Further properties of generate_audio, checked under Spec *)

\* C14: every generate_audio call makes exactly one vendor call when the
\* engine has a client and the text is valid, and none otherwise; a vendor
\* call that raised is not made again.
C14_OneVendorCall ==
    \A c \in DoneCalls :
        Len(c.out.requests) =
            IF tts.client = "Speechify" /\ ValidText(c.text) THEN 1 ELSE 0

\* The vendor call raised and was the only one.
C14_Witness ==
    /\ last.kind = "sync"
    /\ last.env.vendor_raises
    /\ Len(last.out.requests) = 1
    /\ last.out.ret = PyNone

\* C15 as stated: generate_audio never raises; whatever the input and
\* whatever fails, the call ends by returning a path or None.
C15_NeverRaises ==
    \A c \in DoneCalls :
        /\ ~c.out.raised
        /\ IsStr(c.out.ret) \/ c.out.ret = PyNone

\* The clean-up's removal has not failed: os.remove was not called, or it
\* did not raise.
RemovalSucceeded(c) == c.out.removed = <<>> \/ ~c.env.remove_raises

\* C18: when generate_audio has returned None after making the vendor call
\* and the clean-up's removal has not failed, no file is at the target path;
\* a file that was there when the call began has been removed, whether or
\* not the call opened it.
C18_FailureLeavesNoFile ==
    \A c \in DoneCalls :
        (c.out.ret = PyNone /\ c.out.requests # <<>> /\ RemovalSucceeded(c)) =>
            /\ ExpectedPath(c.file_name_no_ext, tts.audio_format.v) \notin DOMAIN fs
            /\ c.out.existed =>
                   c.out.removed =
                       <<ExpectedPath(c.file_name_no_ext, tts.audio_format.v)>>

\* A complete file of an earlier call is gone after a call whose vendor call
\* raised.
C18_Witness ==
    /\ last.kind = "sync"
    /\ last.env.vendor_raises
    /\ last.out.existed
    /\ last.out.ret = PyNone
    /\ last.out.removed = <<ExpectedPath(last.file_name_no_ext, tts.audio_format.v)>>
    /\ ExpectedPath(last.file_name_no_ext, tts.audio_format.v) \notin DOMAIN fs

\* A call is rejected before the try block: the engine has no client or the
\* text is not valid.
Rejected(text) == tts.client = "None" \/ ~ValidText(text)

\* C19: a generate_audio call that is rejected locally, run by the caller or
\* by a worker, leaves every cache file as it was; on an engine without a
\* client it logs the missing client and no warning about the text.
C19_RejectedStep ==
    /\ (last'.kind = "sync" /\ Rejected(last'.text)) =>
           /\ fs' = fs
           /\ tts.client = "None" =>
                  /\ Logged(last'.out.log, "error", "Speechify client not initialized")
                  /\ Count(last'.out.log, "warning") = 0
    /\ (task.state = "pending" /\ task'.state = "ran" /\ Rejected(task.text)) =>
           /\ fs' = fs
           /\ tts.client = "None" =>
                  /\ Logged(task'.out.log, "error", "Speechify client not initialized")
                  /\ Count(task'.out.log, "warning") = 0

C19_RejectedLeavesCache == [][C19_RejectedStep]_vars

\* A call with a text that is no string has been rejected while the file of
\* an earlier call is at the path it would have used.
C19_Witness ==
    /\ last.kind = "sync"
    /\ tts.client = "Speechify"
    /\ last.text = PyInt123
    /\ last.out.ret = PyNone
    /\ last.out.requests = <<>>
    /\ ExpectedPath(last.file_name_no_ext, tts.audio_format.v) \in DOMAIN fs

----------------------------------------------------------------------------
(* Properties of the text sent to the vendor, checked under SpecText *)

\* The text without its leading and trailing whitespace: what lies between
\* its first and its last character that is no whitespace.
Trimmed(s) ==
    LET inner == {i \in DOMAIN s : s[i] \notin {" ", "\t", "\n"}}
    IN  IF inner = {} THEN <<>>
        ELSE SubSeq(s, CHOOSE i \in inner : \A k \in inner : i <= k,
                       CHOOSE j \in inner : \A k \in inner : k <= j)

\* C20: the input of every vendor call is the call's text without its
\* leading and trailing whitespace and is not empty, and every text that is
\* the same once trimmed makes the same vendor calls.
C20_InputIsTrimmedText ==
    last.kind = "sync" =>
        /\ \A n \in DOMAIN last.out.requests :
               /\ last.out.requests[n].input = PyStr(Trimmed(last.text.v))
               /\ last.out.requests[n].input.v # <<>>
        /\ (Trimmed(last.text.v) # <<>>) => last.out.requests # <<>>
        /\ \A other \in WideTexts :
               Trimmed(other.v) = Trimmed(last.text.v) =>
                   generate_audio(tts, NoFiles, other, last.file_name_no_ext,
                                  last.env).requests = last.out.requests

\* A text with whitespace on both sides of a letter was sent as the letter.
C20_Witness ==
    /\ last.kind = "sync"
    /\ last.text = PyStr(<<" ", "a", "\t">>)
    /\ Len(last.out.requests) = 1
    /\ last.out.requests[1].input = PyStr(<<"a">>)

----------------------------------------------------------------------------
(* The configuration, checked under Spec *)

\* C16: once the constructor has returned, no step of a generate_audio,
\* async_generate_audio, filter_voice_models or remove_file call changes the
\* engine's api key, voice id, model, language, audio format, file
\* extension, normalization flags or client, and filter_voice_models leaves
\* the voice list it was given as it was.
C16_ConfigStep ==
    /\ phase = "ready" => (phase' = "ready" /\ tts' = tts)
    /\ last'.kind = "filter_voice_models" => last'.out.voices = last'.voices

C16_ConfigurationImmutable == [][C16_ConfigStep]_vars

\* A synthesis and then a removal have been made on an engine that still has
\* its client and the format and language it was constructed with.
C16_Witness ==
    /\ phase = "ready"
    /\ last.kind = "remove_file"
    /\ tts.client = "Speechify"
    /\ tts.audio_format = PyStr(S_wav)
    /\ tts.language = PyStr(S_fr_FR)
    /\ \E p \in DOMAIN fs : fs[p] = <<65>>

----------------------------------------------------------------------------
(* Properties of generate_audio calls side by side, checked under SpecConc *)

\* The call i takes the step.
Acts(i) == inv'[i].pc # inv[i].pc

\* The call i has begun and was not rejected; its target path is that of its
\* stem and the engine's format.
HasTarget(i) == inv[i].pc \notin {"idle"} /\ inv[i].path # <<>>

TargetPath(i) == ExpectedPath(inv[i].file_name_no_ext, tts.audio_format.v)

\* The file at path p is in both states and the same.
FileKept(p) == p \in DOMAIN fs /\ p \in DOMAIN fs' /\ fs'[p] = fs[p]

\* The file at path p is in neither state, or in both and the same.
FileUntouched(p) ==
    /\ p \in DOMAIN fs <=> p \in DOMAIN fs'
    /\ p \in DOMAIN fs => fs'[p] = fs[p]

\* C13 as stated: whatever the stems of two calls side by side, a call that
\* returns a path has at that moment a file at the path that holds its own
\* decoded payload, and no step of a call on its way to failure removes or
\* changes a file that the other call wrote and has returned.
C13_ReturnStep ==
    \A i \in Invocations :
        (inv[i].pc = "return" /\ inv'[i].pc = "done") =>
            /\ inv'[i].ret = PyStr(TargetPath(i))
            /\ TargetPath(i) \in DOMAIN fs
            /\ fs[TargetPath(i)] = DecodedPayload(inv[i].env.audio_data)

C13_FailingStep ==
    \A i \in Invocations, j \in Invocations :
        (/\ i # j
         /\ inv[i].pc = "done" /\ IsStr(inv[i].ret)
         /\ inv[i].ret.v \in DOMAIN fs
         /\ fs[inv[i].ret.v] = DecodedPayload(inv[i].env.audio_data)
         /\ Acts(j)
         /\ inv'[j].pc \in {"handler", "remove"} \/ inv'[j].ret = PyNone) =>
            FileKept(inv[i].ret.v)

C13_AsStated == [][C13_ReturnStep /\ C13_FailingStep]_vars

\* What the call i would have done alone: generate_audio on the file that
\* was at its path when it began, under the answers it got.
Alone(i) ==
    generate_audio(tts, inv[i].pre, inv[i].text, inv[i].file_name_no_ext,
                   inv[i].env)

\* C17: of two calls side by side whose target paths differ, no step of one
\* creates, changes or removes the file at the other's path, and each ends
\* with the return value and the file at its path that it would have ended
\* with alone.
C17_OwnFileStep ==
    \A i \in Invocations, j \in Invocations :
        (i # j /\ Acts(i) /\ HasTarget(j) /\ inv'[i].pc # "idle"
             /\ ExpectedPath(inv'[i].file_name_no_ext, tts.audio_format.v)
                    # TargetPath(j)) =>
            FileUntouched(TargetPath(j))

C17_AsAlone ==
    \A i \in Invocations, j \in Invocations :
        (i # j /\ inv[i].pc = "done" /\ HasTarget(i)
             /\ (HasTarget(j) => TargetPath(j) # TargetPath(i))) =>
            /\ inv[i].ret = Alone(i).ret
            /\ TargetPath(i) \in DOMAIN fs <=> TargetPath(i) \in DOMAIN Alone(i).files
            /\ TargetPath(i) \in DOMAIN fs =>
                   fs[TargetPath(i)] = Alone(i).files[TargetPath(i)]

C17_DifferentPathsIndependent == [][C17_OwnFileStep]_vars /\ []C17_AsAlone

\* Two calls with different stems have ended, one with its path and its
\* payload in its file over that of an earlier call, the other with None
\* after a write that broke off.
C17_Witness ==
    /\ inv[1].pc = "done" /\ inv[2].pc = "done"
    /\ inv[1].file_name_no_ext # inv[2].file_name_no_ext
    /\ inv[1].ret = PyStr(TargetPath(1))
    /\ inv[1].pre # NoFiles
    /\ fs[TargetPath(1)] = <<65>>
    /\ inv[2].ret = PyNone
    /\ inv[2].env.io = "write_raises"
    /\ TargetPath(2) \notin DOMAIN fs

----------------------------------------------------------------------------
(* Letter case in the constructor's validation, checked under SpecCtor *)

\* The supported value that a string equals when letter case is ignored, if
\* there is one.
SupportedIgnoringCase(x, supported) ==
    {f \in supported : IsStr(x) /\ EqualIgnoringCase(x.v, f)}

\* The fields the constructor has replaced by their defaults: the format
\* that is no supported one even ignoring letter case, the model that is not
\* exactly a supported one.
FormatReplaced == SupportedIgnoringCase(args.audio_format, SupportedFormats) = {}
ModelReplaced == ~(IsStr(args.model) /\ args.model.v \in SupportedModels)

\* C21: whenever the constructor returns, an audio_format that equals a
\* supported format ignoring letter case is stored as that format without a
\* warning, a model that equals a supported model ignoring letter case but
\* not exactly is replaced by simba-english with a warning, and the warnings
\* logged are as many as the fields replaced.
C21_CaseInValidation ==
    phase = "ready" =>
        /\ \A f \in SupportedIgnoringCase(args.audio_format, SupportedFormats) :
               /\ tts.audio_format = PyStr(f)
               /\ ~Logged(initLog, "warning", "Unsupported audio format")
        /\ \A m \in SupportedIgnoringCase(args.model, SupportedModels) :
               args.model.v # m =>
                   /\ tts.model = PyStr(S_simba_english)
                   /\ Logged(initLog, "warning", "Unsupported model")
        /\ Count(initLog, "warning") =
               (IF FormatReplaced THEN 1 ELSE 0) + (IF ModelReplaced THEN 1 ELSE 0)

\* MP3 was kept as mp3 and Simba-English replaced, with one warning.
C21_Witness ==
    /\ phase = "ready"
    /\ args.audio_format = PyStr(<<"M", "P", "3">>)
    /\ args.model =
           PyStr(<<"S", "i", "m", "b", "a", "-", "E", "n", "g", "l", "i", "s", "h">>)
    /\ tts.audio_format = PyStr(S_mp3)
    /\ tts.model = PyStr(S_simba_english)
    /\ Count(initLog, "warning") = 1

====
